---- MODULE Spec2Model ----
(***************************************************************************)
(* SideLinePro server (src/server.js, Mongo variant, lines 1-327).         *)
(*                                                                         *)
(* Three parts of the server are modelled:                                 *)
(*   - generateWithFallback, the ordered fallback over                     *)
(*     MODEL_FALLBACK_LIST, step by step at its await points, driven by    *)
(*     the text-only path of POST /api/chat (specification SpecGen);       *)
(*   - the extraction of the report from the model's raw text (fence       *)
(*     stripping and JSON.parse);                                          *)
(*   - the roster merge of POST /api/chat's video path, together with      *)
(*     POST /api/create-session and the clock (specification Spec).       *)
(*                                                                         *)
(* JavaScript's undefined is the string "undefined"; a text is a sequence  *)
(* of tokens; an error message built by a template string is the sequence  *)
(* of its pieces.                                                          *)
(***************************************************************************)
EXTENDS Integers, Sequences, FiniteSets, TLC

VARIABLES
    \* ---- text-only /api/chat and generateWithFallback (SpecGen) ----
    history,        \* session.history: sequence of [role, text]
    pc,             \* position of the text-only handler: "idle", "await", "done"
    attempts,       \* model names on which generateContent was invoked, in order
    failures,       \* error.message of every failed attempt, in order
    lastError,      \* the local lastError (NoError is null)
    inFlight,       \* index of the candidate whose generateContent is awaited, 0 if none
    genStatus,      \* "none", "running", "returned", "threw"
    pending,        \* indices of the candidates whose generateContent promise is unsettled
    response,       \* the HTTP response of the last finished /api/chat request
    \* ---- video /api/chat, create-session, clock (Spec) ----
    sessionExists,  \* the Session document exists
    roster,         \* the persisted session.roster
    clock,          \* Date.now()
    rawText,        \* result.response.text() of the last video request
    extraction,     \* outcome of lines 285-286: "none", "parsed", "threw"
    dets,           \* json.players_detected merged by the last video request
    steps,          \* session.roster before each iteration of the merge loop, and after the last
    mergedAt,       \* the time the merge loop of the last video request read
    \* ---- extraction of one text, lines 285-286 and 315 (SpecExtract) ----
    payload,        \* the JSON text the model wrote, before any wrapping
    wrapper,        \* how the reply wraps it: "unset", "none", "fence", "fenceJson"
    reports,        \* the outcomes of the extractions made of it, in order
    \* ---- video /api/chat step by step (SpecVideo) ----
    vpc,            \* position of the video handler: "idle", "polled", "waiting", "generate", "done"
    fileState,      \* file.state as the last getFile returned it
    clips,          \* the persisted Clip documents: [title, fullData]
    rawTitle,       \* json.title of the last video request
    trace,          \* what the last video request did with its temp file and its response, in order
    \* ---- concurrent calls of generateWithFallback (SpecCalls) ----
    calls,          \* per request: the call's status, candidate awaited, attempts, failures, error thrown
    lastErrors,     \* the storage of the lastError variables, by cell
    \* ---- the credit-metered file-store /api/chat of part_005 (SpecMetered) ----
    credits,        \* users[email].credits as stored in USER_DB_FILE
    held,           \* the credits the user held before the requests
    reqs,           \* per request: position, kind, its copy of the credits, file state, attempts, waits, response
    analyses,       \* number of video prompts sent to the model
    \* ---- concurrent video requests on one session (SpecRace) ----
    sessionVersion, \* the version key __v of the stored Session document
    docs,           \* per request: position, the session document it read, its detections, its response
    \* ---- sessions and clips of several users (SpecOwners) ----
    store,          \* the Session and Clip collections
    asks            \* per user: position of the user's /api/chat text request, and its last response

genVars == <<history, pc, attempts, failures, lastError, inFlight, genStatus, pending>>
videoVars == <<sessionExists, roster, clock, rawText, extraction, dets, steps, mergedAt>>
extractVars == <<payload, wrapper, reports>>
\* the variables that no step of Spec or SpecGen writes
stepVars == <<vpc, fileState, clips, rawTitle, trace>>
callVars == <<calls, lastErrors>>
meterVars == <<credits, held, reqs, analyses>>
\* the variables of the specifications of the other variants and routes
raceVars == <<sessionVersion, docs>>
ownerVars == <<store, asks>>
restVars == <<meterVars, raceVars, ownerVars>>
auxVars == <<extractVars, stepVars, callVars, restVars>>
vars == <<history, pc, attempts, failures, lastError, inFlight, genStatus, pending, response,
          sessionExists, roster, clock, rawText, extraction, dets, steps, mergedAt,
          payload, wrapper, reports, vpc, fileState, clips, rawTitle, trace, calls, lastErrors,
          credits, held, reqs, analyses, sessionVersion, docs,
          store, asks>>

(***************************************************************************)
(* Bounds                                                                  *)
(***************************************************************************)
MaxHistory == 4     \* entries of session.history
MaxNotes == 3       \* observations held by the whole roster
MaxClock == 1       \* last value of the clock

(***************************************************************************)
(* Generic helpers                                                         *)
(***************************************************************************)
IsPrefix(s, t) == Len(s) <= Len(t) /\ SubSeq(t, 1, Len(s)) = s

SeqsUpTo(S, n) == UNION {[1..k -> S] : k \in 0..n}

Last(s) == s[Len(s)]

NoDuplicates(s) == \A i, j \in 1..Len(s) : i # j => s[i] # s[j]

Undefined == "undefined"

(***************************************************************************)
(* generateWithFallback                                                    *)
(***************************************************************************)
MODEL_FALLBACK_LIST == <<"gemini-2.0-flash-exp", "gemini-1.5-pro", "gemini-1.5-flash">>

NumCandidates == Len(MODEL_FALLBACK_LIST)

NoError == "null"

\* error.message of a failed generateContent call
ErrorMessages == {"404 model not found", "429 quota exceeded"}

\* result.response.text() of a text-only chat
Replies == {"Run more play action.", "Blitz the A gap."}

Messages == {"How do we beat Cover 1?"}

NoResponse == [status |-> 0, body |-> <<>>]

\* The template string "Analysis failed. Last error: ${lastError.message}"
AggregateMessage(err) == <<"Analysis failed. Last error: ", err>>

\* res.json({ reply, ... })
ReplyResponse(reply) == [status |-> 200, body |-> reply]

\* res.status(500).json({ error: e.message || "Analysis failed." })
ErrorResponse(message) == [status |-> 500, body |-> message]

\* Faulty variant: the loop steps over a candidate.
NextCandidateSkips(i) == i + 2

\* The candidate the for-of loop visits after the one at index i.
NextCandidate(i) == i + 1

\* Faulty variant: only the first error is kept.
RecordFirstError(previous, message) == IF previous = NoError THEN message ELSE previous

\* catch (error) { lastError = error; }
RecordError(previous, message) == message

\* Faulty variant: an error that does not say the model is missing ends the
\* call.
AdvancesOnNotFoundOnly(message) == message = "404 model not found"

\* The catch block holds no throw: after an error of any class the loop goes
\* on with the next candidate.
Advances(message) == TRUE

\* Faulty variant: the loop goes on without awaiting the call.
SettleNothing(unsettled, i) == unsettled

\* await: the loop resumes when the promise of candidate i has settled.
Settle(unsettled, i) == unsettled \ {i}

\* model.generateContent on the candidate at index i is invoked and awaited.
Invoke(i) ==
    /\ attempts' = Append(attempts, MODEL_FALLBACK_LIST[i])
    /\ inFlight' = i
    /\ pending' = Settle(pending, inFlight) \cup {i}

\* POST /api/chat without fileData: the user message is pushed to the history
\* and generateWithFallback starts with its first candidate.
ChatTextBegin(message) ==
    /\ pc \in {"idle", "done"}
    /\ Len(history) + 2 <= MaxHistory
    /\ history' = Append(history, [role |-> "user", text |-> message])
    /\ lastError' = NoError
    /\ failures' = <<>>
    /\ attempts' = <<MODEL_FALLBACK_LIST[1]>>
    /\ inFlight' = 1
    /\ pending' = {1}
    /\ genStatus' = "running"
    /\ response' = NoResponse
    /\ pc' = "await"
    /\ UNCHANGED videoVars
    /\ UNCHANGED auxVars

\* The awaited generateContent resolves: generateWithFallback returns the
\* result, the handler pushes the reply to the history and answers.
AttemptSucceeds(reply) ==
    /\ pc = "await"
    /\ genStatus' = "returned"
    /\ inFlight' = 0
    /\ pending' = Settle(pending, inFlight)
    /\ history' = Append(history, [role |-> "model", text |-> reply])
    /\ response' = ReplyResponse(<<reply>>)
    /\ pc' = "done"
    /\ UNCHANGED <<attempts, failures, lastError>>
    /\ UNCHANGED videoVars
    /\ UNCHANGED auxVars

\* The awaited generateContent rejects: the catch records the error, the loop
\* goes on with the next candidate, or, after the last one, throws the
\* aggregate error, which the handler's catch turns into a 500.
AttemptFails(message) ==
    /\ pc = "await"
    /\ lastError' = RecordError(lastError, message)
    /\ failures' = Append(failures, message)
    /\ IF Advances(message) /\ NextCandidate(inFlight) \in 1..NumCandidates
       THEN /\ Invoke(NextCandidate(inFlight))
            /\ UNCHANGED <<genStatus, response, pc>>
       ELSE /\ genStatus' = "threw"
            /\ inFlight' = 0
            /\ pending' = Settle(pending, inFlight)
            /\ response' = ErrorResponse(IF Advances(message)
                                         THEN AggregateMessage(lastError')
                                         ELSE <<message>>)
            /\ pc' = "done"
            /\ UNCHANGED attempts
    /\ UNCHANGED history
    /\ UNCHANGED videoVars
    /\ UNCHANGED auxVars

(***************************************************************************)
(* generateWithFallback as one call, for the handlers that are modelled as *)
(* one step: outcomes[i] is "ok" or the error.message of candidate i.      *)
(***************************************************************************)
Succeeds == "ok"

OutcomeVectors == [1..NumCandidates -> {Succeeds} \cup ErrorMessages]

RECURSIVE GenLoop(_, _, _)
GenLoop(i, err, outcomes) ==
    IF i \notin 1..NumCandidates
    THEN [status |-> "threw", message |-> AggregateMessage(err)]
    ELSE IF outcomes[i] = Succeeds
         THEN [status |-> "returned", message |-> <<>>]
         ELSE IF Advances(outcomes[i])
              THEN GenLoop(NextCandidate(i), RecordError(err, outcomes[i]), outcomes)
              ELSE [status |-> "threw", message |-> <<outcomes[i]>>]

generateWithFallback(outcomes) == GenLoop(1, NoError, outcomes)

GenResults == {generateWithFallback(o) : o \in OutcomeVectors}

Returned == {g \in GenResults : g.status = "returned"}

Thrown == {g \in GenResults : g.status = "threw"}

(***************************************************************************)
(* Extraction: lines 285-286                                               *)
(***************************************************************************)
\* the fence markers: three backquotes followed by json, and three backquotes
FenceJson == "<fence>json"
Fence == "<fence>"
Newline == "\n"
FieldTokens == {"title", "data", "players_detected"}

RECURSIVE RemoveAll(_, _)
RemoveAll(text, token) ==
    IF text = <<>> THEN <<>>
    ELSE IF Head(text) = token THEN RemoveAll(Tail(text), token)
         ELSE <<Head(text)>> \o RemoveAll(Tail(text), token)

RECURSIVE TrimStart(_)
TrimStart(text) ==
    IF text # <<>> /\ Head(text) = Newline THEN TrimStart(Tail(text)) ELSE text

RECURSIVE TrimEnd(_)
TrimEnd(text) ==
    IF text # <<>> /\ Last(text) = Newline
    THEN TrimEnd(SubSeq(text, 1, Len(text) - 1)) ELSE text

Trim(text) == TrimEnd(TrimStart(text))

\* Faulty variant: only the fence that names json is removed
StripFencesJsonOnly(text) == Trim(RemoveAll(text, FenceJson))

\* text.replace(fence-json, all).replace(fence, all).trim()
StripFences(text) == Trim(RemoveAll(RemoveAll(text, FenceJson), Fence))

\* JSON.parse accepts an object: "{", members, "}", white space anywhere.
ParsesAsObject(text) ==
    LET t == RemoveAll(text, Newline) IN
    /\ Len(t) >= 2
    /\ t[1] = "{"
    /\ t[Len(t)] = "}"
    /\ \A i \in 2..(Len(t) - 1) : t[i] \in FieldTokens

\* The keys of the parsed object
JsonKeys(text) == {text[i] : i \in 1..Len(text)} \cap FieldTokens

\* The member names of a sequence, each once, at the place of its first
\* appearance: JSON.parse keeps one property for a repeated name.
RECURSIVE OwnKeys(_, _)
OwnKeys(members, seen) ==
    IF members = <<>> THEN <<>>
    ELSE IF Head(members) \in seen THEN OwnKeys(Tail(members), seen)
         ELSE <<Head(members)>> \o OwnKeys(Tail(members), seen \cup {Head(members)})

\* JSON.parse(text) of a text that parses: the object, as its properties in
\* order
JsonParse(text) ==
    LET t == RemoveAll(text, Newline) IN OwnKeys(SubSeq(t, 2, Len(t) - 1), {})

\* Faulty variant: the closing brace is lost
JsonStringifyOpen(json) == <<"{">> \o json

\* JSON.stringify(json): one line, the properties in order
JsonStringify(json) == <<"{">> \o json \o <<"}">>

\* The outcome of lines 285-286 on a reply text: the parsed object, or the
\* SyntaxError that JSON.parse throws
SyntaxError == [ok |-> FALSE, json |-> <<>>]
Extract(text) ==
    IF ParsesAsObject(StripFences(text))
    THEN [ok |-> TRUE, json |-> JsonParse(StripFences(text))]
    ELSE SyntaxError

\* The file-store variant, lines 538-541: reply.indexOf of the opening
\* brace, 0 when there is none
FirstBrace(text) ==
    IF \E i \in 1..Len(text) : text[i] = "{"
    THEN CHOOSE i \in 1..Len(text) :
            text[i] = "{" /\ \A j \in 1..(i - 1) : text[j] # "{"
    ELSE 0

\* reply.lastIndexOf of the closing brace, 0 when there is none
LastBrace(text) ==
    IF \E i \in 1..Len(text) : text[i] = "}"
    THEN CHOOSE i \in 1..Len(text) :
            text[i] = "}" /\ \A j \in (i + 1)..Len(text) : text[j] # "}"
    ELSE 0

\* reply.substring(firstBrace, lastBrace + 1)
BraceSpan(text) == SubSeq(text, FirstBrace(text), LastBrace(text))

(***************************************************************************)
(* Roster merge: lines 288-304                                             *)
(***************************************************************************)
Identifiers == {"CB3", "WR1", Undefined}

\* What one clip says of a subject: a first sighting with a weakness tag, a
\* later one without the field, and one whose tag is the empty string.
Sightings ==
    { [grade |-> "C-", observation |-> "late jump", position |-> "CB", weakness |-> "phase"],
      [grade |-> "B", observation |-> "better leverage", position |-> "S", weakness |-> Undefined],
      [grade |-> "B", observation |-> "better leverage", position |-> "S", weakness |-> ""] }

\* The entries of json.players_detected
Detections ==
    { [identifier |-> id, position |-> s.position, grade |-> s.grade,
       observation |-> s.observation, weakness |-> s.weakness] :
      id \in Identifiers, s \in Sightings }

\* if (p.weakness), p.weakness ? ... : ...
Truthy(v) == v # Undefined /\ v # ""

\* Faulty variant: a detection without identifier never matches a profile.
FindIndexNamedOnly(r, id) ==
    IF id # Undefined /\ \E i \in 1..Len(r) : r[i].identifier = id
    THEN CHOOSE i \in 1..Len(r) : r[i].identifier = id
    ELSE -1

\* session.roster.findIndex(r => r.identifier === p.identifier)
FindIndex(r, id) ==
    IF \E i \in 1..Len(r) : r[i].identifier = id
    THEN CHOOSE i \in 1..Len(r) :
            /\ r[i].identifier = id
            /\ \A j \in 1..(i - 1) : r[j].identifier # id
    ELSE -1

\* Faulty variant: unshift instead of push.
PushNoteFront(notes, p) == <<p.observation>> \o notes

\* The notes after notes.push(p.observation)
PushNote(notes, p) == Append(notes, p.observation)

\* Faulty variant: the weakness is pushed without the test.
PushWeaknessAlways(weaknesses, p) == Append(weaknesses, p.weakness)

\* The weaknesses after if(p.weakness) weaknesses.push(p.weakness)
PushWeakness(weaknesses, p) ==
    IF Truthy(p.weakness) THEN Append(weaknesses, p.weakness) ELSE weaknesses

\* Faulty variant: the schema has no default for last_updated.
NewProfileUnstamped(p, now) ==
    [identifier |-> p.identifier, position |-> p.position, grade |-> p.grade,
     notes |-> <<p.observation>>,
     weaknesses |-> IF Truthy(p.weakness) THEN <<p.weakness>> ELSE <<>>,
     last_updated |-> 0]

\* The sub-document session.roster.push({...}) creates; the schema's default
\* gives last_updated.
NewProfile(p, now) ==
    [identifier |-> p.identifier, position |-> p.position, grade |-> p.grade,
     notes |-> <<p.observation>>,
     weaknesses |-> IF Truthy(p.weakness) THEN <<p.weakness>> ELSE <<>>,
     last_updated |-> now]

\* Faulty variant: the found branch keeps the grade the profile had.
UpdateProfileKeepsGrade(profile, p, now) ==
    [profile EXCEPT !.notes = PushNote(@, p),
                    !.weaknesses = PushWeakness(@, p),
                    !.last_updated = now]

\* Faulty variant: the found branch takes the position of the detection too.
UpdateProfileMovesPosition(profile, p, now) ==
    [profile EXCEPT !.position = p.position,
                    !.grade = p.grade,
                    !.notes = PushNote(@, p),
                    !.weaknesses = PushWeakness(@, p),
                    !.last_updated = now]

\* Faulty variant: the found branch stamps the epoch, new Date(0).
UpdateProfileEpoch(profile, p, now) ==
    [profile EXCEPT !.grade = p.grade,
                    !.notes = PushNote(@, p),
                    !.weaknesses = PushWeakness(@, p),
                    !.last_updated = 0]

\* The found branch: lines 292-295
UpdateProfile(profile, p, now) ==
    [profile EXCEPT !.grade = p.grade,
                    !.notes = PushNote(@, p),
                    !.weaknesses = PushWeakness(@, p),
                    !.last_updated = now]

\* Faulty variant: every detection is pushed as a new profile.
MergeOneAlwaysPushes(r, p, now) == Append(r, NewProfile(p, now))

\* Faulty variant: a new profile is put in front, unshift instead of push.
MergeOneUnshifts(r, p, now) ==
    LET idx == FindIndex(r, p.identifier) IN
    IF idx > -1
    THEN [r EXCEPT ![idx] = UpdateProfile(r[idx], p, now)]
    ELSE <<NewProfile(p, now)>> \o r

\* One iteration of the loop over json.players_detected
MergeOne(r, p, now) ==
    LET idx == FindIndex(r, p.identifier) IN
    IF idx > -1
    THEN [r EXCEPT ![idx] = UpdateProfile(r[idx], p, now)]
    ELSE Append(r, NewProfile(p, now))

\* The roster before each iteration of the loop, and after the last one
RECURSIVE MergeSteps(_, _, _)
MergeSteps(r, detections, now) ==
    IF detections = <<>> THEN <<r>>
    ELSE <<r>> \o MergeSteps(MergeOne(r, Head(detections), now), Tail(detections), now)

RECURSIVE SumLen(_)
SumLen(s) == IF s = <<>> THEN 0 ELSE Len(Head(s)) + SumLen(Tail(s))

TotalNotes(r) == SumLen([i \in 1..Len(r) |-> r[i].notes])

(***************************************************************************)
(* POST /api/chat with fileData, POST /api/create-session, the clock       *)
(***************************************************************************)
\* result.response.text() of a video analysis
RawTexts ==
    { <<"{", "title", "data", "players_detected", "}">>,
      <<FenceJson, Newline, "{", "title", "data", "players_detected", "}", Newline, Fence>>,
      <<"{", "title", "data", "players_detected">>,
      <<"{", "title", "data", "}">>,
      <<"{", "title", "players_detected", "}">>,
      <<"Here is the analysis:", Newline, "{", "title", "data", "players_detected", "}">> }

\* JSON.stringify(json)
Stringify(text) == JsonStringify(JsonParse(text))

ProcessingFailedMessage == <<"Video processing failed at Google.">>
NullSessionMessage == <<"Cannot read properties of null (reading 'roster')">>
SyntaxErrorMessage == <<"Unexpected token in JSON">>
NoDataMessage == <<"Cannot read properties of undefined (reading 'o_formation')">>

\* The lists json.players_detected can hold in a text
PlayersOf(text) ==
    IF ParsesAsObject(StripFences(text)) /\ "players_detected" \in JsonKeys(text)
    THEN SeqsUpTo(Detections, MaxNotes - TotalNotes(roster))
    ELSE {<<>>}

\* What a video request that merges nothing leaves behind
NoMerge ==
    /\ dets' = <<>>
    /\ steps' = <<>>
    /\ mergedAt' = 0
    /\ UNCHANGED roster

\* A video request that ends before generateWithFallback returns a text
NoExtraction ==
    /\ rawText' = <<>>
    /\ extraction' = "none"
    /\ NoMerge

\* Session.create({..., history: [], roster: []})
CreateSession ==
    /\ ~sessionExists
    /\ sessionExists' = TRUE
    /\ roster' = <<>>
    /\ UNCHANGED <<clock, rawText, extraction, dets, steps, mergedAt, response>>
    /\ UNCHANGED genVars
    /\ UNCHANGED auxVars

\* Time passes
Tick ==
    /\ clock < MaxClock
    /\ clock' = clock + 1
    /\ UNCHANGED <<sessionExists, roster, rawText, extraction, dets, steps, mergedAt, response>>
    /\ UNCHANGED genVars
    /\ UNCHANGED auxVars

\* The uploaded file ends in FileState.FAILED: line 234
ChatVideoProcessingFailed ==
    /\ response' = ErrorResponse(ProcessingFailedMessage)
    /\ NoExtraction
    /\ UNCHANGED <<sessionExists, clock>>
    /\ UNCHANGED genVars
    /\ UNCHANGED auxVars

\* Session.findOne finds no session: line 237 reads session.roster of null
ChatVideoNoSession ==
    /\ ~sessionExists
    /\ response' = ErrorResponse(NullSessionMessage)
    /\ NoExtraction
    /\ UNCHANGED <<sessionExists, clock>>
    /\ UNCHANGED genVars
    /\ UNCHANGED auxVars

\* generateWithFallback throws: every candidate failed
ChatVideoExhausted(g) ==
    /\ sessionExists
    /\ g.status = "threw"
    /\ response' = ErrorResponse(g.message)
    /\ NoExtraction
    /\ UNCHANGED <<sessionExists, clock>>
    /\ UNCHANGED genVars
    /\ UNCHANGED auxVars

\* Lines 285-318 on the text generateWithFallback returned, and the catch of
\* 320-324: extraction, merge, session.save(), response
Analyze(text, players) ==
    /\ rawText' = text
    /\ IF ~ParsesAsObject(StripFences(text))
       THEN /\ extraction' = "threw"
            /\ response' = ErrorResponse(SyntaxErrorMessage)
            /\ NoMerge
       ELSE /\ extraction' = "parsed"
            /\ IF "players_detected" \in JsonKeys(text) /\ Len(players) > 0
               THEN /\ dets' = players
                    /\ steps' = MergeSteps(roster, players, clock)
                    /\ mergedAt' = clock
                    /\ roster' = Last(steps')
               ELSE NoMerge
            /\ IF "data" \in JsonKeys(text)
               THEN response' = ReplyResponse(Stringify(StripFences(text)))
               ELSE response' = ErrorResponse(NoDataMessage)

\* generateWithFallback returns text
ChatVideoAnalyzed(g, text, players) ==
    /\ sessionExists
    /\ g.status = "returned"
    /\ Analyze(text, players)
    /\ UNCHANGED <<sessionExists, clock>>
    /\ UNCHANGED genVars
    /\ UNCHANGED auxVars

(***************************************************************************)
(* Extraction of one reply text, and of its serialized report              *)
(***************************************************************************)
MaxTextLen == 4
TextTokens == {"{", "}", Newline, Fence, FenceJson, "Here is the analysis:"} \cup FieldTokens
Payloads == SeqsUpTo(TextTokens, MaxTextLen)
Wrappers == {"none", "fence", "fenceJson"}

\* The reply text around a payload: bare, or between an opening fence, with
\* or without the word json, and a closing fence
Wrap(text, w) ==
    CASE w = "none" -> text
      [] w = "fence" -> <<Fence, Newline>> \o text \o <<Newline, Fence>>
      [] w = "fenceJson" -> <<FenceJson, Newline>> \o text \o <<Newline, Fence>>

\* lines 285-286 on the reply
ExtractReply(w) ==
    /\ wrapper = "unset"
    /\ wrapper' = w
    /\ reports' = <<Extract(Wrap(payload, w))>>
    /\ UNCHANGED <<payload, response>>
    /\ UNCHANGED <<genVars, videoVars, stepVars, callVars, restVars>>

\* line 315 stores JSON.stringify(json) as the reply of the model; lines
\* 285-286 on that text
ExtractStored ==
    /\ Len(reports) = 1
    /\ reports[1].ok
    /\ reports' = Append(reports, Extract(JsonStringify(reports[1].json)))
    /\ UNCHANGED <<payload, wrapper, response>>
    /\ UNCHANGED <<genVars, videoVars, stepVars, callVars, restVars>>

(***************************************************************************)
(* Video /api/chat, one step for every await of lines 215-318              *)
(***************************************************************************)
MaxClips == 1
FileStates == {"PROCESSING", "ACTIVE", "FAILED"}
Titles == {"Slant vs Cover 1", "Mesh vs Cover 3"}

\* Clip.create({..., title: "Analyzing...", ...})
NewClip == [title |-> "Analyzing...", fullData |-> <<>>]

\* Faulty variant: the title of the report is not written to the clip
SaveReportKeepsTitle(clip, title, json) == [clip EXCEPT !.fullData = json]

\* savedClip.title = json.title; savedClip.fullData = json; savedClip.save()
SaveReport(clip, title, json) == [title |-> title, fullData |-> json]

\* Faulty variant: the error path removes the clip of the request
CatchClipsDeleted(c) == SubSeq(c, 1, Len(c) - 1)

\* The catch of lines 320-324 writes no clip: the clips after it
CatchClips(c) == c

\* lines 317-318: the temp file is unlinked, then the report is answered
SuccessSteps == <<"unlink", "respond">>

\* Faulty variant: the catch answers without a look at tempPath
CatchStepsNoUnlink(tempPathSet) == <<"respond">>

\* lines 322-323: if (tempPath) the temp file is unlinked; then the error is
\* answered
CatchSteps(tempPathSet) ==
    IF tempPathSet THEN <<"unlink", "respond">> ELSE <<"respond">>

\* json.title of a reply whose title member has the value title
TitleOf(text, title) == IF "title" \in JsonKeys(text) THEN title ELSE Undefined

\* Lines 215-228: the upload is written to a temporary file and sent to the
\* video store and to the model provider, the clip is created, and the state
\* of the uploaded file is read for the first time.
VideoBegin(state) ==
    /\ vpc \in {"idle", "done"}
    /\ Len(clips) < MaxClips
    /\ clips' = Append(clips, NewClip)
    /\ fileState' = state
    /\ vpc' = "polled"
    /\ response' = NoResponse
    /\ rawTitle' = Undefined
    /\ trace' = <<"writeFile">>
    /\ NoExtraction
    /\ attempts' = <<>>
    /\ failures' = <<>>
    /\ lastError' = NoError
    /\ inFlight' = 0
    /\ pending' = {}
    /\ genStatus' = "none"
    /\ UNCHANGED <<history, pc, sessionExists, clock>>
    /\ UNCHANGED <<extractVars, callVars, restVars>>

\* What a step of the polling loop leaves alone
PollFrame ==
    /\ UNCHANGED <<clips, rawTitle, trace, response>>
    /\ UNCHANGED <<genVars, videoVars, extractVars, callVars, restVars>>

\* while (file.state === FileState.PROCESSING): the handler waits 2000 ms
PollWait ==
    /\ vpc = "polled"
    /\ fileState = "PROCESSING"
    /\ vpc' = "waiting"
    /\ UNCHANGED fileState
    /\ PollFrame

\* file = await fileManager.getFile(...): the provider reports the state
PollGet(state) ==
    /\ vpc = "waiting"
    /\ fileState' = state
    /\ vpc' = "polled"
    /\ PollFrame

\* line 234: the file ended in FileState.FAILED
VideoProcessingFailed ==
    /\ vpc = "polled"
    /\ fileState = "FAILED"
    /\ response' = ErrorResponse(ProcessingFailedMessage)
    /\ vpc' = "done"
    /\ clips' = CatchClips(clips)
    /\ trace' = trace \o CatchSteps(TRUE)
    /\ UNCHANGED <<fileState, rawTitle>>
    /\ UNCHANGED <<genVars, videoVars, extractVars, callVars, restVars>>

\* lines 236-237: Session.findOne finds no session, session.roster throws
VideoNoSession ==
    /\ vpc = "polled"
    /\ fileState = "ACTIVE"
    /\ ~sessionExists
    /\ response' = ErrorResponse(NullSessionMessage)
    /\ vpc' = "done"
    /\ clips' = CatchClips(clips)
    /\ trace' = trace \o CatchSteps(TRUE)
    /\ UNCHANGED <<fileState, rawTitle>>
    /\ UNCHANGED <<genVars, videoVars, extractVars, callVars, restVars>>

\* lines 236-283: the session is read, the prompt is built and
\* generateWithFallback starts with its first candidate
VideoGenerate ==
    /\ vpc = "polled"
    /\ fileState = "ACTIVE"
    /\ sessionExists
    /\ attempts' = <<MODEL_FALLBACK_LIST[1]>>
    /\ inFlight' = 1
    /\ pending' = {1}
    /\ genStatus' = "running"
    /\ vpc' = "generate"
    /\ UNCHANGED <<history, pc, failures, lastError, response>>
    /\ UNCHANGED <<fileState, clips, rawTitle, trace>>
    /\ UNCHANGED <<videoVars, extractVars, callVars, restVars>>

\* The awaited generateContent rejects: the next candidate is invoked, or,
\* after the last one, generateWithFallback throws to the catch of 320-324
VideoAttemptFails(message) ==
    /\ vpc = "generate"
    /\ lastError' = RecordError(lastError, message)
    /\ failures' = Append(failures, message)
    /\ IF Advances(message) /\ NextCandidate(inFlight) \in 1..NumCandidates
       THEN /\ Invoke(NextCandidate(inFlight))
            /\ UNCHANGED <<genStatus, response, vpc, clips, trace>>
       ELSE /\ genStatus' = "threw"
            /\ inFlight' = 0
            /\ pending' = Settle(pending, inFlight)
            /\ response' = ErrorResponse(IF Advances(message)
                                         THEN AggregateMessage(lastError')
                                         ELSE <<message>>)
            /\ vpc' = "done"
            /\ clips' = CatchClips(clips)
            /\ trace' = trace \o CatchSteps(TRUE)
            /\ UNCHANGED attempts
    /\ UNCHANGED <<history, pc>>
    /\ UNCHANGED <<fileState, rawTitle>>
    /\ UNCHANGED <<videoVars, extractVars, callVars, restVars>>

\* The awaited generateContent resolves with a text whose title member, if
\* any, is title and whose players_detected, if any, is players: lines
\* 285-318, or the catch of 320-324 when a line of them throws
VideoAttemptSucceeds(text, title, players) ==
    /\ vpc = "generate"
    /\ genStatus' = "returned"
    /\ inFlight' = 0
    /\ pending' = Settle(pending, inFlight)
    /\ Analyze(text, players)
    /\ IF ParsesAsObject(StripFences(text))
       THEN rawTitle' = TitleOf(text, title)
       ELSE rawTitle' = Undefined
    /\ IF ParsesAsObject(StripFences(text)) /\ "data" \in JsonKeys(text)
       THEN /\ clips' = [clips EXCEPT ![Len(clips)] =
                            SaveReport(@, TitleOf(text, title), JsonParse(StripFences(text)))]
            /\ history' = history
                   \o <<[role |-> "user", text |-> "Uploaded Video Analysis"],
                        [role |-> "model", text |-> Stringify(StripFences(text))]>>
            /\ trace' = trace \o SuccessSteps
       ELSE /\ clips' = CatchClips(clips)
            /\ trace' = trace \o CatchSteps(TRUE)
            /\ UNCHANGED history
    /\ vpc' = "done"
    /\ UNCHANGED <<pc, attempts, failures, lastError>>
    /\ UNCHANGED <<sessionExists, clock, fileState>>
    /\ UNCHANGED <<extractVars, callVars, restVars>>

(***************************************************************************)
(* Concurrent requests, each in one call of generateWithFallback           *)
(***************************************************************************)
MaxRequests == 2
Requests == 1..MaxRequests

NoCall == [status |-> "none", awaited |-> 0, attempted |-> <<>>, failed |-> <<>>, thrown |-> <<>>]

\* Faulty variant: lastError is one variable of the module
ErrorCellShared(r) == 1

\* let lastError = null: every call has a variable of its own
ErrorCell(r) == r

\* What a step of generateWithFallback leaves alone
CallFrame ==
    /\ UNCHANGED <<genVars, videoVars, extractVars, stepVars, restVars, response>>

\* A request calls generateWithFallback: the first candidate is invoked
CallBegin(r) ==
    /\ calls[r].status = "none"
    /\ lastErrors' = [lastErrors EXCEPT ![ErrorCell(r)] = NoError]
    /\ calls' = [calls EXCEPT ![r] = [status |-> "running", awaited |-> 1,
                                      attempted |-> <<MODEL_FALLBACK_LIST[1]>>,
                                      failed |-> <<>>, thrown |-> <<>>]]
    /\ CallFrame

\* The generateContent the call of r awaits resolves: return result
CallSucceeds(r) ==
    /\ calls[r].status = "running"
    /\ calls' = [calls EXCEPT ![r].status = "returned", ![r].awaited = 0]
    /\ UNCHANGED lastErrors
    /\ CallFrame

\* The generateContent the call of r awaits rejects
CallFails(r, message) ==
    /\ calls[r].status = "running"
    /\ lastErrors' = [lastErrors EXCEPT ![ErrorCell(r)] = RecordError(@, message)]
    /\ IF Advances(message) /\ NextCandidate(calls[r].awaited) \in 1..NumCandidates
       THEN calls' = [calls EXCEPT
                        ![r].awaited = NextCandidate(@),
                        ![r].attempted = Append(@, MODEL_FALLBACK_LIST[NextCandidate(calls[r].awaited)]),
                        ![r].failed = Append(@, message)]
       ELSE calls' = [calls EXCEPT
                        ![r].status = "threw",
                        ![r].awaited = 0,
                        ![r].failed = Append(@, message),
                        ![r].thrown = IF Advances(message)
                                      THEN AggregateMessage(lastErrors'[ErrorCell(r)])
                                      ELSE <<message>>]
    /\ CallFrame

(***************************************************************************)
(* The credit-metered /api/chat of the file store: part_005, lines 181-271 *)
(***************************************************************************)
MaxCredits == 1
PollCeiling == 30

NoRequest ==
    [pc |-> "none", video |-> FALSE, users |-> 0, file |-> "ACTIVE",
     attempts |-> 0, waits |-> 0, response |-> NoResponse]

\* const cost = fileData ? 1 : 0
Cost(video) == IF video THEN 1 ELSE 0

\* res.status(500).json({ error: "Analysis failed. " + e.message })
MeteredError(message) == ErrorResponse(<<"Analysis failed. ", message>>)

\* What a step of the metered handler leaves alone
MeteredFrame ==
    /\ UNCHANGED <<genVars, videoVars, extractVars, stepVars, callVars, raceVars, ownerVars, response>>
    /\ UNCHANGED held

\* lines 186-187: the request reads the users file and awaits the chats file
ReadUsers(r, video) ==
    /\ reqs[r].pc = "none"
    /\ reqs' = [reqs EXCEPT ![r].pc = "read", ![r].video = video, ![r].users = credits]
    /\ UNCHANGED <<credits, analyses>>
    /\ MeteredFrame

\* lines 189-194: the credit check on the copy that was read; a video
\* request takes one credit off its copy and starts writing the users file
CheckCredits(r) ==
    /\ reqs[r].pc = "read"
    /\ IF reqs[r].users < Cost(reqs[r].video)
       THEN reqs' = [reqs EXCEPT ![r].pc = "done",
                                 ![r].response = ReplyResponse(<<"payment_required">>)]
       ELSE IF Cost(reqs[r].video) > 0
            THEN reqs' = [reqs EXCEPT ![r].pc = "writing",
                                      ![r].users = @ - Cost(reqs[r].video)]
            ELSE reqs' = [reqs EXCEPT ![r].pc = "sending"]
    /\ UNCHANGED <<credits, analyses>>
    /\ MeteredFrame

\* lines 193-215: writeJSON puts the copy in place of the users file; the
\* upload is written and sent, and the state of the file is read
WriteUsers(r, state) ==
    /\ reqs[r].pc = "writing"
    /\ credits' = reqs[r].users
    /\ reqs' = [reqs EXCEPT ![r].pc = "polled", ![r].file = state, ![r].attempts = 0]
    /\ UNCHANGED analyses
    /\ MeteredFrame

\* lines 217-219: the file is in PROCESSING and attempts is not above the
\* ceiling: the handler waits 2000 ms
MeteredPollWait(r) ==
    /\ reqs[r].pc = "polled"
    /\ reqs[r].file = "PROCESSING"
    /\ ~(reqs[r].attempts > PollCeiling)
    /\ reqs' = [reqs EXCEPT ![r].pc = "waiting", ![r].waits = @ + 1]
    /\ UNCHANGED <<credits, analyses>>
    /\ MeteredFrame

\* lines 220-221: file = await getFile(...); attempts++
MeteredPollGet(r, state) ==
    /\ reqs[r].pc = "waiting"
    /\ reqs' = [reqs EXCEPT ![r].pc = "polled", ![r].file = state, ![r].attempts = @ + 1]
    /\ UNCHANGED <<credits, analyses>>
    /\ MeteredFrame

\* line 218: if (attempts > 30) throw new Error("Video processing timed out.")
MeteredTimedOut(r) ==
    /\ reqs[r].pc = "polled"
    /\ reqs[r].file = "PROCESSING"
    /\ reqs[r].attempts > PollCeiling
    /\ reqs' = [reqs EXCEPT ![r].pc = "done",
                             ![r].response = MeteredError("Video processing timed out.")]
    /\ UNCHANGED <<credits, analyses>>
    /\ MeteredFrame

\* line 224: the file ended in FileState.FAILED
MeteredProcessingFailed(r) ==
    /\ reqs[r].pc = "polled"
    /\ reqs[r].file = "FAILED"
    /\ reqs' = [reqs EXCEPT ![r].pc = "done",
                             ![r].response = MeteredError("Video processing failed by Google.")]
    /\ UNCHANGED <<credits, analyses>>
    /\ MeteredFrame

\* lines 226-230: the file is ACTIVE: the video prompt is sent to the model
SendVideo(r) ==
    /\ reqs[r].pc = "polled"
    /\ reqs[r].file = "ACTIVE"
    /\ reqs' = [reqs EXCEPT ![r].pc = "sending"]
    /\ analyses' = analyses + 1
    /\ UNCHANGED credits
    /\ MeteredFrame

\* lines 230-271: chat.sendMessage resolves, the chats and the clip are
\* written and the reply is answered; or a step of them throws
MessageAnswered(r, ok) ==
    /\ reqs[r].pc = "sending"
    /\ reqs' = [reqs EXCEPT ![r].pc = "done",
                             ![r].response = IF ok THEN ReplyResponse(<<"reply">>)
                                             ELSE MeteredError("429 quota exceeded")]
    /\ UNCHANGED <<credits, analyses>>
    /\ MeteredFrame

(***************************************************************************)
(* Sessions and clips of several users: /api/chat and /api/clip-chat       *)
(***************************************************************************)
MaxEntries == 1

Users == {"A", "B"}
SessionIds == {"sess_1", "sess_2"}
SuppliedSessionIds == SessionIds \cup {"sess_9"}
ClipIds == {"clip_1", "clip_2"}
SuppliedClipIds == ClipIds \cup {"clip_9"}

\* owner: req.auth.userId of the request that created the document
SessionOwner == [sid \in SessionIds |-> IF sid = "sess_1" THEN "A" ELSE "B"]
ClipOwner == [cid \in ClipIds |-> IF cid = "clip_1" THEN "A" ELSE "B"]

\* An entry pushed onto history, roster or chatHistory, with the user whose
\* request pushed it
Entry(role, user) == [role |-> role, by |-> user]

EmptyStore ==
    [history |-> [sid \in SessionIds |-> <<>>],
     roster  |-> [sid \in SessionIds |-> <<>>],
     chatHistory |-> [cid \in ClipIds |-> <<>>],
     created |-> {}]

NoAsk == [pc |-> "idle", sessionId |-> "none", status |-> 0]

\* Session.updateOne({ sessionId }, { $push: { history } }): the filter
\* names the session only; it matches whoever owns it, and no document when
\* the id is unknown
PushHistory(st, sid, entries) ==
    IF sid \in SessionIds
    THEN [st EXCEPT !.history[sid] = @ \o entries]
    ELSE st

\* Session.findOne({ sessionId, owner }) and Clip.findOne({ _id, owner })
FindsSession(sid, user) == sid \in SessionIds /\ SessionOwner[sid] = user
FindsClip(cid, user) == cid \in ClipIds /\ ClipOwner[cid] = user

OwnerFrame ==
    /\ UNCHANGED <<genVars, videoVars, extractVars, stepVars, callVars, meterVars, raceVars,
                   response>>

\* Bound of the model: a session takes pushes while it holds fewer than
\* MaxEntries entries
Room(st, sid) ==
    sid \in SessionIds => Len(st.history[sid]) < MaxEntries /\ Len(st.roster[sid]) < MaxEntries

\* lines 207-208: no fileData; the user's message is pushed onto the session
ChatTextAsk(u, sid) ==
    /\ asks[u].pc = "idle"
    /\ Room(store, sid)
    /\ store' = PushHistory(store, sid, <<Entry("user", u)>>)
    /\ asks' = [asks EXCEPT ![u] = [pc |-> "asked", sessionId |-> sid, status |-> 0]]
    /\ OwnerFrame

\* lines 209-212: the reply is pushed onto the session and answered
ChatTextReply(u) ==
    /\ asks[u].pc = "asked"
    /\ store' = PushHistory(store, asks[u].sessionId, <<Entry("model", u)>>)
    /\ asks' = [asks EXCEPT ![u] = [pc |-> "idle", sessionId |-> "none", status |-> 200]]
    /\ OwnerFrame

\* line 209 throws, lines 320-324 answer 500
ChatTextError(u) ==
    /\ asks[u].pc = "asked"
    /\ asks' = [asks EXCEPT ![u] = [pc |-> "idle", sessionId |-> "none", status |-> 500]]
    /\ UNCHANGED store
    /\ OwnerFrame

\* lines 215-324: the clip is created for the requesting user; the session
\* is found by id and owner, and a session that is not found ends the request
\* at line 237 before anything is pushed
ChatVideo(u, sid, ok) ==
    /\ asks[u].pc = "idle"
    /\ Room(store, sid)
    /\ LET created == [store EXCEPT !.created = @ \cup {<<u, sid>>}] IN
         IF FindsSession(sid, u) /\ ok
         THEN /\ store' = PushHistory(
                             [created EXCEPT !.roster[sid] = Append(@, Entry("profile", u))],
                             sid, <<Entry("user", u), Entry("model", u)>>)
              /\ asks' = [asks EXCEPT ![u].status = 200]
         ELSE /\ store' = created
              /\ asks' = [asks EXCEPT ![u].status = 500]
    /\ OwnerFrame

\* lines 169-199: the clip is found by id and owner; a clip that is not
\* found answers before anything is pushed
ClipChat(u, cid, ok) ==
    /\ asks[u].pc = "idle"
    /\ cid \in ClipIds => Len(store.chatHistory[cid]) < MaxEntries
    /\ IF ~FindsClip(cid, u)
       THEN /\ UNCHANGED store
            /\ asks' = [asks EXCEPT ![u].status = 200]
       ELSE IF ok
       THEN /\ store' = [store EXCEPT !.chatHistory[cid] =
                                         @ \o <<Entry("user", u), Entry("model", u)>>]
            /\ asks' = [asks EXCEPT ![u].status = 200]
       ELSE /\ UNCHANGED store
            /\ asks' = [asks EXCEPT ![u].status = 500]
    /\ OwnerFrame

(***************************************************************************)
(* Video requests that interleave on one session: lines 236-304            *)
(***************************************************************************)
MaxDetected == 1
VersionErrorMessage == <<"No matching document found for id and version">>

NoDocument == [pc |-> "none", roster |-> <<>>, version |-> 0, dets |-> <<>>, response |-> NoResponse]

\* The merge loop met a profile: an element of the roster array was changed
\* in place, so the save carries the version the document was read with
TouchesProfiles(r, detections) ==
    \E k \in 1..Len(detections) :
        FindIndex(MergeSteps(r, detections, 0)[k], detections[k].identifier) > -1

\* await session.save(): with the version that was read the merged array is
\* stored; on a newer document the pushes of new profiles are appended,
\* and a save that changed profiles in place matches no document
Save(stored, version, doc, detections, now) ==
    LET merged == Last(MergeSteps(doc.roster, detections, now)) IN
    IF doc.version = version
    THEN [ok |-> TRUE, roster |-> merged]
    ELSE IF TouchesProfiles(doc.roster, detections)
         THEN [ok |-> FALSE, roster |-> stored]
         ELSE [ok |-> TRUE,
               roster |-> stored \o SubSeq(merged, Len(doc.roster) + 1, Len(merged))]

\* What a step of a request leaves alone
RaceFrame ==
    /\ UNCHANGED <<genVars, extractVars, stepVars, callVars, meterVars, ownerVars, response>>
    /\ UNCHANGED <<sessionExists, clock, rawText, extraction, dets, steps, mergedAt>>

\* lines 215-237: upload, clip, polling, and Session.findOne reads the
\* session document
FindSession(r) ==
    /\ docs[r].pc = "none"
    /\ sessionExists
    /\ docs' = [docs EXCEPT ![r].pc = "found", ![r].roster = roster, ![r].version = sessionVersion]
    /\ UNCHANGED <<roster, sessionVersion>>
    /\ RaceFrame

\* lines 283-286 throw: every candidate failed, or the reply does not parse
AnalysisFails(r, message) ==
    /\ docs[r].pc = "found"
    /\ docs' = [docs EXCEPT ![r].pc = "done", ![r].response = ErrorResponse(message)]
    /\ UNCHANGED <<roster, sessionVersion>>
    /\ RaceFrame

\* lines 283-318: the reply parses with the detections players; the merge
\* runs on the document that was read and session.save() stores it
MergeAndSave(r, players) ==
    /\ docs[r].pc = "found"
    /\ LET saved == Save(roster, sessionVersion, docs[r], players, clock) IN
         /\ roster' = saved.roster
         /\ sessionVersion' = IF saved.ok /\ players # <<>> THEN sessionVersion + 1
                               ELSE sessionVersion
         /\ docs' = [docs EXCEPT
                        ![r].pc = "done",
                        ![r].dets = players,
                        ![r].response = IF saved.ok THEN ReplyResponse(<<"report">>)
                                        ELSE ErrorResponse(VersionErrorMessage)]
    /\ RaceFrame

(***************************************************************************)
(* Specifications                                                          *)
(***************************************************************************)
Init ==
    /\ history = <<>>
    /\ pc = "idle"
    /\ attempts = <<>>
    /\ failures = <<>>
    /\ lastError = NoError
    /\ inFlight = 0
    /\ genStatus = "none"
    /\ pending = {}
    /\ response = NoResponse
    /\ sessionExists = FALSE
    /\ roster = <<>>
    /\ clock = 0
    /\ rawText = <<>>
    /\ extraction = "none"
    /\ dets = <<>>
    /\ steps = <<>>
    /\ mergedAt = 0
    /\ payload = <<>>
    /\ wrapper = "unset"
    /\ reports = <<>>
    /\ vpc = "idle"
    /\ fileState = "ACTIVE"
    /\ clips = <<>>
    /\ rawTitle = Undefined
    /\ trace = <<>>
    /\ calls = [r \in Requests |-> NoCall]
    /\ lastErrors = [r \in Requests |-> NoError]
    /\ credits = 0
    /\ held = 0
    /\ reqs = [r \in Requests |-> NoRequest]
    /\ analyses = 0
    /\ sessionVersion = 0
    /\ docs = [r \in Requests |-> NoDocument]
    /\ store = EmptyStore
    /\ asks = [u \in Users |-> NoAsk]

Next ==
    \/ CreateSession
    \/ Tick
    \/ ChatVideoProcessingFailed
    \/ ChatVideoNoSession
    \/ \E g \in Thrown : ChatVideoExhausted(g)
    \/ \E g \in Returned, text \in RawTexts :
          \E players \in PlayersOf(text) : ChatVideoAnalyzed(g, text, players)

Spec == Init /\ [][Next]_vars

InitGen ==
    /\ Init

NextGen ==
    \/ \E message \in Messages : ChatTextBegin(message)
    \/ \E reply \in Replies : AttemptSucceeds(reply)
    \/ \E message \in ErrorMessages : AttemptFails(message)

SpecGen == InitGen /\ [][NextGen]_vars

\* One reply text, any sequence of at most MaxTextLen tokens
InitExtract ==
    /\ history = <<>>
    /\ pc = "idle"
    /\ attempts = <<>>
    /\ failures = <<>>
    /\ lastError = NoError
    /\ inFlight = 0
    /\ genStatus = "none"
    /\ pending = {}
    /\ response = NoResponse
    /\ sessionExists = FALSE
    /\ roster = <<>>
    /\ clock = 0
    /\ rawText = <<>>
    /\ extraction = "none"
    /\ dets = <<>>
    /\ steps = <<>>
    /\ mergedAt = 0
    /\ payload \in Payloads
    /\ wrapper = "unset"
    /\ reports = <<>>
    /\ vpc = "idle"
    /\ fileState = "ACTIVE"
    /\ clips = <<>>
    /\ rawTitle = Undefined
    /\ trace = <<>>
    /\ calls = [r \in Requests |-> NoCall]
    /\ lastErrors = [r \in Requests |-> NoError]
    /\ credits = 0
    /\ held = 0
    /\ reqs = [r \in Requests |-> NoRequest]
    /\ analyses = 0
    /\ sessionVersion = 0
    /\ docs = [r \in Requests |-> NoDocument]
    /\ store = EmptyStore
    /\ asks = [u \in Users |-> NoAsk]

NextExtract ==
    \/ \E w \in Wrappers : ExtractReply(w)
    \/ ExtractStored

SpecExtract == InitExtract /\ [][NextExtract]_vars

\* The rosters a session holds after an earlier clip with one detection
EarlierRosters ==
    {<<>>} \cup {Last(MergeSteps(<<>>, <<d>>, 0)) : d \in {p \in Detections : p.identifier = "CB3"}}

InitVideo ==
    /\ history = <<>>
    /\ pc = "idle"
    /\ attempts = <<>>
    /\ failures = <<>>
    /\ lastError = NoError
    /\ inFlight = 0
    /\ genStatus = "none"
    /\ pending = {}
    /\ response = NoResponse
    /\ \/ sessionExists = FALSE /\ roster = <<>>
       \/ sessionExists = TRUE /\ roster \in EarlierRosters
    /\ clock = 0
    /\ rawText = <<>>
    /\ extraction = "none"
    /\ dets = <<>>
    /\ steps = <<>>
    /\ mergedAt = 0
    /\ payload = <<>>
    /\ wrapper = "unset"
    /\ reports = <<>>
    /\ vpc = "idle"
    /\ fileState = "ACTIVE"
    /\ clips = <<>>
    /\ rawTitle = Undefined
    /\ trace = <<>>
    /\ calls = [r \in Requests |-> NoCall]
    /\ lastErrors = [r \in Requests |-> NoError]
    /\ credits = 0
    /\ held = 0
    /\ reqs = [r \in Requests |-> NoRequest]
    /\ analyses = 0
    /\ sessionVersion = 0
    /\ docs = [r \in Requests |-> NoDocument]
    /\ store = EmptyStore
    /\ asks = [u \in Users |-> NoAsk]

\* The steps of the handler from the first getFile to the end of the
\* polling loop
PollStep ==
    \/ PollWait
    \/ \E state \in FileStates : PollGet(state)
    \/ VideoProcessingFailed
    \/ VideoNoSession
    \/ VideoGenerate

\* The steps the handler of the video request takes on its own
VideoStep ==
    \/ PollStep
    \/ \E message \in ErrorMessages : VideoAttemptFails(message)
    \/ \E text \in RawTexts, title \in Titles :
          \E players \in PlayersOf(text) : VideoAttemptSucceeds(text, title, players)

NextVideo ==
    \/ CreateSession
    \/ \E state \in FileStates : VideoBegin(state)
    \/ VideoStep

SpecVideo == InitVideo /\ [][NextVideo]_vars

\* The event loop runs the handler whenever the timer or the getFile reply
\* it awaits is due; nothing makes the provider end the processing of the
\* file.
SpecVideoFair == SpecVideo /\ WF_vars(PollStep)

\* A session with a roster of an earlier clip and no request under way
InitRace ==
    /\ history = <<>>
    /\ pc = "idle"
    /\ attempts = <<>>
    /\ failures = <<>>
    /\ lastError = NoError
    /\ inFlight = 0
    /\ genStatus = "none"
    /\ pending = {}
    /\ response = NoResponse
    /\ sessionExists = TRUE
    /\ roster \in EarlierRosters
    /\ clock = 0
    /\ rawText = <<>>
    /\ extraction = "none"
    /\ dets = <<>>
    /\ steps = <<>>
    /\ mergedAt = 0
    /\ payload = <<>>
    /\ wrapper = "unset"
    /\ reports = <<>>
    /\ vpc = "idle"
    /\ fileState = "ACTIVE"
    /\ clips = <<>>
    /\ rawTitle = Undefined
    /\ trace = <<>>
    /\ calls = [r \in Requests |-> NoCall]
    /\ lastErrors = [r \in Requests |-> NoError]
    /\ credits = 0
    /\ held = 0
    /\ reqs = [r \in Requests |-> NoRequest]
    /\ analyses = 0
    /\ sessionVersion = 0
    /\ docs = [r \in Requests |-> NoDocument]
    /\ store = EmptyStore
    /\ asks = [u \in Users |-> NoAsk]

NextRace ==
    \/ \E r \in Requests : FindSession(r)
    \/ \E r \in Requests, message \in {SyntaxErrorMessage} : AnalysisFails(r, message)
    \/ \E r \in Requests, players \in SeqsUpTo(Detections, MaxDetected) :
          MergeAndSave(r, players)

SpecRace == InitRace /\ [][NextRace]_vars

\* Two users, a session and an analysed clip each, nothing pushed yet
InitOwners == InitGen

NextOwners ==
    \/ \E u \in Users, sid \in SuppliedSessionIds : ChatTextAsk(u, sid)
    \/ \E u \in Users : ChatTextReply(u)
    \/ \E u \in Users : ChatTextError(u)
    \/ \E u \in Users, sid \in SuppliedSessionIds, ok \in BOOLEAN : ChatVideo(u, sid, ok)
    \/ \E u \in Users, cid \in SuppliedClipIds, ok \in BOOLEAN : ClipChat(u, cid, ok)

SpecOwners == InitOwners /\ [][NextOwners]_vars

\* A user with some credits, or none, and no request under way
InitMetered ==
    /\ history = <<>>
    /\ pc = "idle"
    /\ attempts = <<>>
    /\ failures = <<>>
    /\ lastError = NoError
    /\ inFlight = 0
    /\ genStatus = "none"
    /\ pending = {}
    /\ response = NoResponse
    /\ sessionExists = FALSE
    /\ roster = <<>>
    /\ clock = 0
    /\ rawText = <<>>
    /\ extraction = "none"
    /\ dets = <<>>
    /\ steps = <<>>
    /\ mergedAt = 0
    /\ payload = <<>>
    /\ wrapper = "unset"
    /\ reports = <<>>
    /\ vpc = "idle"
    /\ fileState = "ACTIVE"
    /\ clips = <<>>
    /\ rawTitle = Undefined
    /\ trace = <<>>
    /\ calls = [r \in Requests |-> NoCall]
    /\ lastErrors = [r \in Requests |-> NoError]
    /\ credits \in 0..MaxCredits
    /\ held = credits
    /\ reqs = [r \in Requests |-> NoRequest]
    /\ analyses = 0
    /\ sessionVersion = 0
    /\ docs = [r \in Requests |-> NoDocument]
    /\ store = EmptyStore
    /\ asks = [u \in Users |-> NoAsk]

NextMetered ==
    \/ \E r \in Requests, video \in BOOLEAN : ReadUsers(r, video)
    \/ \E r \in Requests : CheckCredits(r)
    \/ \E r \in Requests, state \in FileStates : WriteUsers(r, state)
    \/ \E r \in Requests : MeteredPollWait(r)
    \/ \E r \in Requests, state \in FileStates : MeteredPollGet(r, state)
    \/ \E r \in Requests : MeteredTimedOut(r)
    \/ \E r \in Requests : MeteredProcessingFailed(r)
    \/ \E r \in Requests : SendVideo(r)
    \/ \E r \in Requests, ok \in BOOLEAN : MessageAnswered(r, ok)

SpecMetered == InitMetered /\ [][NextMetered]_vars

\* The sessions in which the concurrent requests are made
InitCalls ==
    /\ InitVideo

NextCalls ==
    \/ \E r \in Requests : CallBegin(r)
    \/ \E r \in Requests : CallSucceeds(r)
    \/ \E r \in Requests, message \in ErrorMessages : CallFails(r, message)

SpecCalls == InitCalls /\ [][NextCalls]_vars

(***************************************************************************)
(* Properties                                                              *)
(***************************************************************************)
Contains(body, piece) == \E i \in 1..Len(body) : body[i] = piece

IdentifiersOf(r) == {r[i].identifier : i \in 1..Len(r)}

\* The merge loop of the last video request ran, and its result was saved
Merged == steps # <<>>

\* The detection dets[k] met a profile with its identifier
FoundAt(k) == dets[k].identifier \in IdentifiersOf(steps[k])

\* C1: in one call of generateWithFallback the candidates invoked are a
\* prefix of MODEL_FALLBACK_LIST in list order, none twice; all but the one
\* in flight or the one that succeeded have failed, so the call ends at the
\* first success and a success of the last candidate follows one attempt of
\* every candidate before it.
C1_AttemptsArePrefix ==
    /\ IsPrefix(attempts, MODEL_FALLBACK_LIST)
    /\ NoDuplicates(attempts)
    /\ genStatus = "running" => inFlight = Len(attempts) /\ Len(failures) = Len(attempts) - 1
    /\ genStatus = "returned" => inFlight = 0 /\ Len(failures) = Len(attempts) - 1
    /\ genStatus = "threw" => inFlight = 0 /\ Len(failures) = Len(attempts)

C1_OnlyLastSucceeded ==
    /\ genStatus = "returned"
    /\ attempts = MODEL_FALLBACK_LIST
    /\ Len(failures) = NumCandidates - 1

\* C2: when every candidate fails, generateWithFallback throws only after
\* all candidates were attempted, and the message of the error, which the
\* handler answers with, holds the failure message of the last candidate and
\* of no other.
C2_LastFailureReported ==
    genStatus = "threw" =>
        /\ attempts = MODEL_FALLBACK_LIST
        /\ Len(failures) = NumCandidates
        /\ response.status = 500
        /\ Contains(response.body, failures[NumCandidates])
        /\ \A m \in ErrorMessages : Contains(response.body, m) => m = failures[NumCandidates]

C2_AllFailedDifferently ==
    /\ genStatus = "threw"
    /\ failures[1] # failures[NumCandidates]

\* C3: extraction never throws: a raw text that is truncated or is no
\* structured data gives an error value, not an exception.
C3_ExtractionNeverThrows ==
    ~ParsesAsObject(StripFences(rawText)) => extraction # "threw"

C5_AppendOnly ==
    [][\A i \in 1..Len(roster) :
          /\ i <= Len(roster')
          /\ IsPrefix(roster[i].notes, roster'[i].notes)
          /\ IsPrefix(roster[i].weaknesses, roster'[i].weaknesses)]_vars

C5_ExistingProfileGrew ==
    /\ Merged
    /\ \E i \in 1..Len(steps[1]) :
          /\ Len(roster[i].notes) > Len(steps[1][i].notes)
          /\ Len(roster[i].weaknesses) > Len(steps[1][i].weaknesses)
          /\ steps[1][i].weaknesses # <<>>

C7_FoundBranch ==
    \A k \in 1..Len(dets) :
        \A i \in 1..Len(steps[k]) :
            steps[k][i].identifier = dets[k].identifier =>
                /\ Len(steps[k + 1]) = Len(steps[k])
                /\ steps[k + 1][i].grade = dets[k].grade
                /\ steps[k + 1][i].notes = Append(steps[k][i].notes, dets[k].observation)
                /\ steps[k + 1][i].weaknesses =
                      IF dets[k].weakness \notin {Undefined, ""}
                      THEN Append(steps[k][i].weaknesses, dets[k].weakness)
                      ELSE steps[k][i].weaknesses
                /\ steps[k + 1][i].last_updated = mergedAt

C7_FoundWithAndWithoutWeakness ==
    /\ Merged
    /\ \E k \in 1..Len(dets) : FoundAt(k) /\ dets[k].weakness = "phase"
    /\ \E k \in 1..Len(dets) : FoundAt(k) /\ dets[k].weakness = ""
    /\ mergedAt > 0

\* C8 as stated: a detection whose identifier is that of no profile appends
\* one profile with notes [observation], weaknesses [weakness] if the
\* detection has a weakness and [] otherwise, the grade as given and
\* last_updated the current time.
C8_NewProfileWeaknessPresent ==
    \A k \in 1..Len(dets) :
        ~FoundAt(k) =>
            steps[k + 1] = Append(steps[k],
                [identifier |-> dets[k].identifier, position |-> dets[k].position,
                 grade |-> dets[k].grade, notes |-> <<dets[k].observation>>,
                 weaknesses |-> IF dets[k].weakness # Undefined
                                THEN <<dets[k].weakness>> ELSE <<>>,
                 last_updated |-> mergedAt])

\* C8 amended: the same, with weaknesses [weakness] if the detection has a
\* non-empty weakness and [] otherwise.
C8_NewProfileWeaknessNonEmpty ==
    \A k \in 1..Len(dets) :
        ~FoundAt(k) =>
            steps[k + 1] = Append(steps[k],
                [identifier |-> dets[k].identifier, position |-> dets[k].position,
                 grade |-> dets[k].grade, notes |-> <<dets[k].observation>>,
                 weaknesses |-> IF dets[k].weakness \notin {Undefined, ""}
                                THEN <<dets[k].weakness>> ELSE <<>>,
                 last_updated |-> mergedAt])

C8_NewProfilesOfEveryKind ==
    /\ Merged
    /\ mergedAt > 0
    /\ \E k \in 1..Len(dets) : ~FoundAt(k) /\ dets[k].weakness = "phase"
    /\ \E k \in 1..Len(dets) : ~FoundAt(k) /\ dets[k].weakness = ""
    /\ \E k \in 1..Len(dets) : ~FoundAt(k) /\ dets[k].weakness = Undefined

\* The identifiers of a detection list that are not in seen, each once, in
\* the order of their first appearance
RECURSIVE UnseenInOrder(_, _)
UnseenInOrder(detections, seen) ==
    IF detections = <<>> THEN <<>>
    ELSE IF Head(detections).identifier \in seen
         THEN UnseenInOrder(Tail(detections), seen)
         ELSE <<Head(detections).identifier>>
                 \o UnseenInOrder(Tail(detections), seen \cup {Head(detections).identifier})

\* C9: a merge leaves every profile the roster held at its place, and the
\* new profiles follow them in the order in which their identifiers first
\* appear in the detection list.
C9_OrderPreserved ==
    Merged =>
        /\ Len(roster) >= Len(steps[1])
        /\ \A i \in 1..Len(steps[1]) : roster[i].identifier = steps[1][i].identifier
        /\ [i \in 1..(Len(roster) - Len(steps[1])) |-> roster[Len(steps[1]) + i].identifier]
              = UnseenInOrder(dets, IdentifiersOf(steps[1]))

C9_NewAfterExisting ==
    /\ Merged
    /\ Len(steps[1]) > 0
    /\ Len(roster) >= Len(steps[1]) + 2

\* C10: last_updated of a profile never decreases: every step leaves it or
\* sets it to a value that is not smaller.
C10_LastUpdatedMonotonic ==
    [][\A i \in 1..Len(roster) :
          /\ i <= Len(roster')
          /\ roster'[i].last_updated >= roster[i].last_updated]_vars

C10_LastUpdatedAdvanced ==
    /\ Merged
    /\ \E i \in 1..Len(steps[1]) : roster[i].last_updated > steps[1][i].last_updated

\* C11: the merge is total: a detection entry that carries no identifier is
\* skipped on its own, so the roster after that entry is the roster before
\* it, with no profile added and none modified.
C11_MalformedSkipped ==
    Merged =>
        \A k \in 1..Len(dets) :
            dets[k].identifier = Undefined => steps[k + 1] = steps[k]

\* C12: stripping fences leaves a valid payload alone: the report extracted
\* from a reply that wraps a valid payload between an opening fence, with or
\* without the word json, and a closing fence is the report extracted from
\* the payload itself.
C12_FenceInvariant ==
    (Len(reports) >= 1 /\ Extract(payload).ok) => reports[1] = Extract(payload)

C12_FencedPayloadExtracted ==
    /\ Len(reports) >= 1
    /\ Extract(payload).ok
    /\ wrapper = "fenceJson"
    /\ Len(reports[1].json) >= 1
    /\ Contains(payload, Newline)

C14_MissingFieldReturnsError ==
    (/\ ParsesAsObject(StripFences(rawText))
     /\ ~({"title", "data"} \subseteq JsonKeys(rawText)))
        => /\ extraction # "parsed"
           /\ response # ErrorResponse(NoDataMessage)

\* C15: a reply that cannot be extracted does not fail the request: the
\* handler answers with a degraded report, not with an error response.
C15_ExtractionFailureDegrades ==
    extraction = "threw" => response.status = 200

\* C17: a failure of any class goes on to the next candidate: after the
\* i-th failure of a call, whatever its message, the candidate after it has
\* been attempted, and the call throws only when the last candidate failed.
C17_EveryFailureAdvances ==
    /\ \A i \in 1..Len(failures) :
          i < NumCandidates => Len(attempts) >= i + 1
    /\ genStatus = "threw" => Len(failures) = NumCandidates

C17_BothClassesAdvanced ==
    /\ Len(failures) >= 2
    /\ failures[1] = "429 quota exceeded"
    /\ failures[2] = "404 model not found"
    /\ attempts = MODEL_FALLBACK_LIST

\* C18: the candidates are tried one after the other: at most one call to
\* generateContent is unsettled at any time, and the call to a candidate is
\* unsettled only when the calls to all candidates before it have failed.
C18_OneCallInFlight ==
    /\ Cardinality(pending) <= 1
    /\ \A i \in pending : Len(failures) = i - 1 /\ Len(attempts) = i

C18_SecondCallAfterFailure ==
    /\ pending = {2}
    /\ Len(failures) = 1

\* The last video request went through the fallback: the first candidate
\* failed as a missing model and the second returned a text that parses,
\* with title, data and players_detected
SecondCandidateReported ==
    /\ vpc = "done"
    /\ genStatus = "returned"
    /\ attempts = SubSeq(MODEL_FALLBACK_LIST, 1, 2)
    /\ failures = <<"404 model not found">>
    /\ ParsesAsObject(StripFences(rawText))
    /\ FieldTokens \subseteq JsonKeys(rawText)

\* C16: end to end, when the first candidate fails as unavailable and the
\* second returns valid structured text with the title "Slant vs Cover 1",
\* the request answers with the report, the clip of the request carries that
\* title, and the roster holds a profile for every detected subject with
\* the observation of the detection among its notes.
C16_FallbackEndToEnd ==
    (SecondCandidateReported /\ rawTitle = "Slant vs Cover 1") =>
        /\ response = ReplyResponse(Stringify(StripFences(rawText)))
        /\ Last(clips).title = "Slant vs Cover 1"
        /\ \A k \in 1..Len(dets) :
              \E i \in 1..Len(roster) :
                  /\ roster[i].identifier = dets[k].identifier
                  /\ Contains(roster[i].notes, dets[k].observation)

C16_FallbackReportMerged ==
    /\ SecondCandidateReported
    /\ rawTitle = "Slant vs Cover 1"
    /\ Len(dets) >= 2
    /\ Len(steps[1]) = 1
    /\ Len(roster) = 2
    /\ \E k \in 1..Len(dets) : FoundAt(k)

\* C19: the polling loop has a ceiling: a video request that polls the
\* state of its file leaves the loop, whatever the provider reports.
C19_PollingEnds ==
    (vpc \in {"polled", "waiting"}) ~> (vpc \in {"generate", "done"})

\* C20: generateWithFallback is stateless: a step of a call leaves the
\* session, its history and roster, and the clip records as they are, and
\* the lastError of a call is never seen by the call of another request:
\* what a call holds, and what it throws, is its own last failure.
C20_CallIsStateless ==
    /\ [](\A r \in Requests :
            /\ calls[r].status = "running" =>
                  lastErrors[ErrorCell(r)] =
                      IF calls[r].failed = <<>> THEN NoError ELSE Last(calls[r].failed)
            /\ calls[r].status = "threw" =>
                  calls[r].thrown = AggregateMessage(Last(calls[r].failed)))
    /\ [][UNCHANGED <<sessionExists, roster, history, clips>>]_vars

C20_ConcurrentCallsDiffer ==
    /\ calls[1].status = "threw"
    /\ calls[2].status = "running"
    /\ calls[2].failed # <<>>
    /\ Last(calls[2].failed) # Last(calls[1].failed)
    /\ roster # <<>>

\* The fields of a player profile: PlayerProfileSchema
ProfileFields == {"identifier", "position", "grade", "notes", "weaknesses", "last_updated"}

\* The place of the last detection of the list that carries the identifier
LastDetectionOf(id) ==
    CHOOSE k \in 1..Len(dets) :
        /\ dets[k].identifier = id
        /\ \A j \in (k + 1)..Len(dets) : dets[j].identifier # id

\* C21: the grade is last-write-wins per merge: after a merge the grade of
\* every profile whose identifier occurs in the detection list is the grade
\* of the last detection with that identifier, and the profile has no field
\* that keeps an earlier grade.
C21_GradeLastWriteWins ==
    Merged =>
        \A i \in 1..Len(roster) :
            /\ DOMAIN roster[i] = ProfileFields
            /\ roster[i].identifier \in IdentifiersOf(dets) =>
                  roster[i].grade = dets[LastDetectionOf(roster[i].identifier)].grade

C21_GradeOverwrittenTwice ==
    /\ Merged
    /\ Len(steps[1]) = 1
    /\ Len(dets) = 2
    /\ dets[1].identifier = steps[1][1].identifier
    /\ dets[2].identifier = steps[1][1].identifier
    /\ dets[1].grade # dets[2].grade
    /\ steps[1][1].grade # roster[1].grade

\* C27: a merge changes nothing of a profile but grade, notes, weaknesses
\* and last_updated: every profile the roster held keeps its identifier and
\* its position, also when a detection names another position, and a
\* profile whose identifier is in no detection is left as it was.
C27_MergeFrame ==
    Merged =>
        \A i \in 1..Len(steps[1]) :
            /\ roster[i].identifier = steps[1][i].identifier
            /\ roster[i].position = steps[1][i].position
            /\ steps[1][i].identifier \notin IdentifiersOf(dets) => roster[i] = steps[1][i]

C27_PositionKeptAndProfileUntouched ==
    /\ Merged
    /\ Len(steps[1]) = 2
    /\ \E k \in 1..Len(dets) :
          /\ dets[k].identifier = steps[1][1].identifier
          /\ dets[k].position # steps[1][1].position
    /\ steps[1][2].identifier \notin IdentifiersOf(dets)

\* The reply is a payload that parses with prose around it: tokens that are
\* no braces and no fences before its first and after its last brace
ProseAroundPayload(text) ==
    /\ FirstBrace(text) > 0
    /\ LastBrace(text) > 0
    /\ BraceSpan(text) # text
    /\ \A i \in 1..Len(text) :
          (i < FirstBrace(text) \/ i > LastBrace(text)) => text[i] \notin {Fence, FenceJson}
    /\ ParsesAsObject(BraceSpan(text))

\* C22: extraction takes the span from the first opening brace to the last
\* closing brace: a payload that parses, with prose without braces before or
\* after it, is extracted, and the report is that of the payload alone.
C22_ProseAroundPayloadExtracted ==
    (Len(reports) >= 1 /\ wrapper = "none" /\ ProseAroundPayload(payload)) =>
        /\ reports[1].ok
        /\ reports[1] = Extract(BraceSpan(payload))

\* C23: in the variant with a polling ceiling a request waits at most 30
\* times for its file: there is no 31st wait.
C23_NoThirtyFirstWait ==
    \A r \in Requests : reqs[r].waits <= PollCeiling

\* C30: credits are not spent twice: the balance is never negative, and the
\* video prompts sent to the model are never more than the credits the user
\* held before the requests.
C30_NoDoubleSpend ==
    /\ credits >= 0
    /\ analyses <= held

\* The video request of the last clip has ended with an error response
VideoFailed == vpc = "done" /\ response.status = 500

\* C24: work done before a failure is kept: when a video request fails
\* after its clip was created, by exhaustion of the candidates, by a reply
\* that cannot be extracted or by failed processing of the file, the clip
\* of the upload is still stored, as it was created.
C24_ClipKeptOnFailure ==
    VideoFailed => Len(clips) >= 1 /\ Last(clips) = NewClip

C24_FailedAfterClipCreated ==
    /\ VideoFailed
    /\ extraction = "threw"
    /\ Len(failures) = 1
    /\ Len(clips) = 1

\* C25: a failure leaves the roster as it was: when a video request ends
\* with an error response, the stored roster is the roster stored before
\* the request.
C25_FailureKeepsRoster ==
    (response.status = 500 /\ Merged) => roster = steps[1]

\* The places of an event in the trace of the last video request
PlacesOf(event) == {i \in 1..Len(trace) : trace[i] = event}

\* C28: the temp file of a video request that has ended was unlinked once,
\* after it was written and before the response was sent, on the success
\* path and on every error path.
C28_TempFileUnlinkedOnce ==
    vpc = "done" =>
        /\ Cardinality(PlacesOf("unlink")) = 1
        /\ Cardinality(PlacesOf("respond")) = 1
        /\ \A w \in PlacesOf("writeFile"), u \in PlacesOf("unlink"), a \in PlacesOf("respond") :
              w < u /\ u < a

C28_UnlinkedOnErrorPath ==
    /\ VideoFailed
    /\ genStatus = "threw"
    /\ PlacesOf("unlink") # {}

\* C26: no roster update is lost under concurrency: when the requests on a
\* session have ended, the stored roster holds, for every detection of
\* every request, a profile of its identifier with its observation among
\* the notes.
C26_NoLostUpdate ==
    (\A r \in Requests : docs[r].pc = "done") =>
        \A r \in Requests : \A k \in 1..Len(docs[r].dets) :
            \E i \in 1..Len(roster) :
                /\ roster[i].identifier = docs[r].dets[k].identifier
                /\ Contains(roster[i].notes, docs[r].dets[k].observation)

\* C29: owner isolation: every entry of a session's history or roster, and
\* every entry of a clip's chat history, was pushed by a request of the user
\* who owns the session or the clip, whatever ids the requests supplied.
C29_OwnerIsolation ==
    /\ \A sid \in SessionIds :
          /\ \A i \in 1..Len(store.history[sid]) : store.history[sid][i].by = SessionOwner[sid]
          /\ \A i \in 1..Len(store.roster[sid]) : store.roster[sid][i].by = SessionOwner[sid]
    /\ \A cid \in ClipIds :
          \A i \in 1..Len(store.chatHistory[cid]) : store.chatHistory[cid][i].by = ClipOwner[cid]
====
